---- MODULE Spec2Model ----
(***************************************************************************)
(* A model of src/github/githubActions.ts: the operations that mirror a    *)
(* chat thread to a tracker issue (create / comment / close / open / lock  *)
(* / unlock / delete) and the reconciliation scan (getIssues).             *)
(*                                                                         *)
(* Every exported function is one action.  The tracker is the environment: *)
(* the outcome of each network call is an input of the action.  The        *)
(* variable `last` records what the most recent operation did (the calls   *)
(* it issued, its waits, its log lines, whether it raised, what it         *)
(* returned and the store it started from).                                *)
(***************************************************************************)
EXTENDS Integers, Sequences, FiniteSets, TLC

VARIABLES
    store,   \* store.threads: the sequence of Thread records
    last     \* the observable trace of the most recent operation

vars == <<store, last>>

----------------------------------------------------------------------------
(* Bounds of the model *)

MaxThreads == 1      \* threads the chat side registers in the store
MaxChannel == 2      \* chat channel ids that tracker bodies link to
MaxNumber == 2       \* issue numbers the tracker hands out: 1..MaxNumber
MaxMsg == 2          \* chat message ids of follow-up messages: 1..MaxMsg
MaxComments == 2     \* comment entries the store is allowed to grow to
MaxIssues == 1       \* issues in one listing (engine specification)
MaxListed == 1       \* comments in one listing (engine specification)
ScanIssues == 2      \* issues in one listing (scan specification)
ScanListed == 2      \* comments in one listing (scan specification)
ScanThreads == 2     \* threads in the store a scan starts from

(* Program constants *)

maxRetries == 3
None == 0            \* an absent (undefined) number, node id or decoded id
Guild == 1           \* the one guild the bot is installed in

----------------------------------------------------------------------------
(* Small helpers *)

Min(S) == CHOOSE x \in S : \A y \in S : x <= y

RECURSIVE Pow2(_)
Pow2(n) == IF n = 0 THEN 1 ELSE 2 * Pow2(n - 1)

SeqsUpTo(S, n) == UNION {[1..k -> S] : k \in 0..n}

Range(s) == {s[i] : i \in DOMAIN s}

Count(s, x) == Cardinality({i \in DOMAIN s : s[i] = x})

----------------------------------------------------------------------------
(* Text.  A string is a sequence of tokens.  A token >= 0 is a maximal run *)
(* of digits (its value); a token < 0 is one of the literals the           *)
(* identity-link pattern is made of, or a run of other text.               *)

UrlPrefix == -1      \* "https://discord.com/channels/"
Slash == -2          \* "/"
RParen == -3         \* ")"
Text == -4           \* any other text without digits
AvatarSize == 40     \* "?size=40"

Num(n) == n
IsNum(tok) == tok >= 0

DiscordUrl(guildId, channelId, id) ==
    <<UrlPrefix, Num(guildId), Slash, Num(channelId), Slash, Num(id)>>

attachmentMarkdown(a) ==
    IF a.contentType \in {"image/png", "image/jpeg"}
    THEN <<Text>> \o a.name \o <<Text>> \o a.url \o <<Text>> \o a.name
         \o <<Text, RParen>>
    ELSE <<>>

RECURSIVE attachmentsToMarkdown(_)
attachmentsToMarkdown(attachments) ==
    IF attachments = <<>> THEN <<>>
    ELSE attachmentMarkdown(Head(attachments))
         \o attachmentsToMarkdown(Tail(attachments))

getIssueBody(params) ==
    LET url == DiscordUrl(params.guildId, params.channelId, params.id)
        name == params.author.globalName
    IN  <<Text>> \o name
        \o <<Text, Num(params.author.id), Slash, Text, Num(AvatarSize), RParen, Text>>
        \o url \o <<RParen, Text>> \o name \o <<Text>>
        \o url \o <<RParen, Text>>
        \o params.content \o <<Text>>
        \o attachmentsToMarkdown(params.attachments) \o <<Text>>

(* the pattern without its lookahead (?=\)) *)
regexWithoutLookahead(body, i) ==
    /\ i + 5 <= Len(body)
    /\ body[i] = UrlPrefix
    /\ IsNum(body[i + 1])
    /\ body[i + 2] = Slash
    /\ IsNum(body[i + 3])
    /\ body[i + 4] = Slash
    /\ IsNum(body[i + 5])

(* /https:\/\/discord\.com\/channels\/(\d+)\/(\d+)\/(\d+)(?=\))/ at i *)
regexForDiscordCredentials(body, i) ==
    /\ i + 6 <= Len(body)
    /\ body[i] = UrlPrefix
    /\ IsNum(body[i + 1])
    /\ body[i + 2] = Slash
    /\ IsNum(body[i + 3])
    /\ body[i + 4] = Slash
    /\ IsNum(body[i + 5])
    /\ body[i + 6] = RParen

getDiscordInfoFromGithubBody(body) ==
    LET found == {i \in 1..Len(body) : regexForDiscordCredentials(body, i)}
    IN  IF found = {}
        THEN [channelId |-> None, id |-> None]
        ELSE [channelId |-> body[Min(found) + 3],
              id |-> body[Min(found) + 5]]

----------------------------------------------------------------------------
(* The chat message of a thread's first post and of a follow-up message.   *)

Author == [id |-> 7, globalName |-> <<Text>>, avatar |-> <<Text>>]

FirstMessage(threadId) ==
    [guildId |-> Guild, channelId |-> threadId, id |-> threadId,
     content |-> <<Text>>, author |-> Author, attachments |-> <<>>]

FollowUp(threadId, msgId) ==
    [guildId |-> Guild, channelId |-> threadId, id |-> msgId,
     content |-> <<Text>>, author |-> Author, attachments |-> <<>>]

----------------------------------------------------------------------------
(* Thread records (interfaces.Thread, the fields this file reads or writes) *)

NewThread(id) ==
    [id |-> id, number |-> None, node_id |-> None, body |-> <<>>,
     archived |-> FALSE, comments |-> <<>>]

NodeIdOf(number) == number   \* the node id the tracker reports for an issue

----------------------------------------------------------------------------
(* What a network call can answer.  kind: "ok" (a response with data; v is *)
(* the number or id in it), "nodata" (a response without data) or "throw"  *)
(* (the promise rejects; isError tells an Error instance from a value of   *)
(* another shape, hasNA / hasRL whether its message includes               *)
(* 'not authorized' / 'rate limit').                                       *)

Ok(v) == [kind |-> "ok", v |-> v, isError |-> FALSE, hasNA |-> FALSE,
          hasRL |-> FALSE]
NoData == [kind |-> "nodata", v |-> 0, isError |-> FALSE, hasNA |-> FALSE,
           hasRL |-> FALSE]
Throw(isError, hasNA, hasRL) ==
    [kind |-> "throw", v |-> 0, isError |-> isError, hasNA |-> hasNA,
     hasRL |-> hasRL]

Failures == {Throw(TRUE, FALSE, FALSE), Throw(FALSE, FALSE, FALSE)}

(* Log lines: logger.info / logger.error and console.log / console.error *)
info(action) == [via |-> "logger", level |-> "info", text |-> action]
error(text) == [via |-> "logger", level |-> "error", text |-> text]
consoleLog(text) == [via |-> "console", level |-> "log", text |-> text]
consoleError(text) == [via |-> "console", level |-> "error", text |-> text]

(* The outcome of running one function: the thread record it leaves, the   *)
(* calls it issued, its waits (ms), its log lines and whether it raised.   *)
Done(thread, calls, waits, logs) ==
    [thread |-> thread, calls |-> calls, waits |-> waits, logs |-> logs,
     raised |-> FALSE]
Raised(thread, calls, waits, logs) ==
    [thread |-> thread, calls |-> calls, waits |-> waits, logs |-> logs,
     raised |-> TRUE]

(* try { ... } catch (err) { if (err instanceof Error) A else B } *)
catchLog(o, prefix) ==
    IF o.isError THEN error("Failed to " \o prefix \o ": <message>")
    ELSE error("Failed to " \o prefix \o " due to an unknown error")

----------------------------------------------------------------------------
(* update, closeIssue, openIssue, lockIssue, unlockIssue *)

(* update with `throw err` in place of `return err` *)
updateRethrows(o) ==
    [threw |-> o.kind = "throw", isTrue |-> o.kind # "throw", err |-> o]

update(o) ==
    [threw |-> FALSE, isTrue |-> o.kind # "throw", err |-> o]

(* closeIssue without its `if (!issue_number)` guard *)
closeIssueUnguarded(thread, o) ==
    IF update(o).isTrue
    THEN Done(thread, <<"issues.update(closed)">>, <<>>, <<info("closed")>>)
    ELSE Done(thread, <<"issues.update(closed)">>, <<>>,
              <<catchLog(o, "close issue")>>)

closeIssue(thread, o) ==
    IF thread.number = None
    THEN Done(thread, <<>>, <<>>,
              <<error("Thread does not have an issue number")>>)
    ELSE LET response == update(o)
             calls == <<"issues.update(closed)">>
         IN  IF response.threw THEN Raised(thread, calls, <<>>, <<>>)
             ELSE IF response.isTrue
             THEN Done(thread, calls, <<>>, <<info("closed")>>)
             ELSE Done(thread, calls, <<>>,
                       <<catchLog(response.err, "close issue")>>)

openIssue(thread, o) ==
    IF thread.number = None
    THEN Done(thread, <<>>, <<>>,
              <<error("Thread does not have an issue number")>>)
    ELSE LET response == update(o)
             calls == <<"issues.update(open)">>
         IN  IF response.threw THEN Raised(thread, calls, <<>>, <<>>)
             ELSE IF response.isTrue
             THEN Done(thread, calls, <<>>, <<info("reopened")>>)
             ELSE Done(thread, calls, <<>>,
                       <<catchLog(response.err, "open issue")>>)

lockIssue(thread, o) ==
    IF thread.number = None
    THEN Done(thread, <<>>, <<>>,
              <<error("Thread does not have an issue number")>>)
    ELSE IF o.kind # "throw"
    THEN Done(thread, <<"issues.lock">>, <<>>, <<info("locked")>>)
    ELSE Done(thread, <<"issues.lock">>, <<>>, <<catchLog(o, "lock issue")>>)

unlockIssue(thread, o) ==
    IF thread.number = None
    THEN Done(thread, <<>>, <<>>,
              <<error("Thread does not have an issue number")>>)
    ELSE IF o.kind # "throw"
    THEN Done(thread, <<"issues.unlock">>, <<>>, <<info("unlocked")>>)
    ELSE Done(thread, <<"issues.unlock">>, <<>>,
              <<catchLog(o, "unlock issue")>>)

----------------------------------------------------------------------------
(* createIssue, createIssueComment *)

(* createIssue without its `if (number)` guard *)
createIssueUnguarded(thread, params, o) ==
    IF o.kind = "ok"
    THEN Done([thread EXCEPT !.node_id = NodeIdOf(o.v),
                             !.body = getIssueBody(params),
                             !.number = o.v],
              <<"issues.create">>, <<>>, <<info("created")>>)
    ELSE Done(thread, <<"issues.create">>, <<>>,
              <<catchLog(o, "create issue")>>)

createIssue(thread, params, o) ==
    IF thread.number # None
    THEN Done(thread, <<>>, <<>>,
              <<error("Thread already has an issue number")>>)
    ELSE LET body == getIssueBody(params)
             calls == <<"issues.create">>
         IN  IF o.kind = "ok"
             THEN Done([thread EXCEPT !.node_id = NodeIdOf(o.v),
                                      !.body = body,
                                      !.number = o.v],
                       calls, <<>>, <<info("created")>>)
             ELSE IF o.kind = "nodata"
             THEN Done(thread, calls, <<>>,
                       <<error("Failed to create issue - No response data")>>)
             ELSE Done(thread, calls, <<>>, <<catchLog(o, "create issue")>>)

(* a createIssueComment that records the comment whatever the answer *)
createIssueCommentOptimistic(thread, params, o) ==
    IF thread.number = None
    THEN Done(thread, <<>>, <<>>,
              <<error("Thread does not have an issue number")>>)
    ELSE Done([thread EXCEPT !.comments =
                  Append(@, [id |-> params.id, git_id |-> o.v])],
              <<"issues.createComment">>, <<>>, <<info("commented")>>)

createIssueComment(thread, params, o) ==
    IF thread.number = None
    THEN Done(thread, <<>>, <<>>,
              <<error("Thread does not have an issue number")>>)
    ELSE LET calls == <<"issues.createComment">>
         IN  IF o.kind = "ok"
             THEN Done([thread EXCEPT !.comments =
                           Append(@, [id |-> params.id, git_id |-> o.v])],
                       calls, <<>>, <<info("commented")>>)
             ELSE IF o.kind = "nodata"
             THEN Done(thread, calls, <<>>,
                       <<error("Failed to create comment - No response data")>>)
             ELSE Done(thread, calls, <<>>, <<catchLog(o, "create comment")>>)

----------------------------------------------------------------------------
(* checkAppPermissions, getInstallationAccessToken, getGraphQLClient *)

(* checkAppPermissions answering "granted" when the query fails *)
checkAppPermissionsFailOpen(p) ==
    [hasRequiredPermissions |-> (p \in {"write", "throw"}),
     calls |-> <<"apps.getInstallation">>,
     logs |-> <<consoleLog("Current GitHub App permissions:")>>]

(* p: the issues capability of the installation, or "throw" when the       *)
(* apps.getInstallation query fails                                        *)
checkAppPermissions(p) ==
    IF p = "throw"
    THEN [hasRequiredPermissions |-> FALSE,
          calls |-> <<"apps.getInstallation">>,
          logs |-> <<consoleError("Failed to check permissions:")>>]
    ELSE [hasRequiredPermissions |-> (p = "write"),
          calls |-> <<"apps.getInstallation">>,
          logs |-> <<consoleLog("Current GitHub App permissions:"),
                     consoleLog("Permissions check:")>>]

getInstallationAccessToken(tokenOk) ==
    [token |-> tokenOk,
     calls |-> <<"auth(installation)">>,
     logs |-> IF tokenOk THEN <<>>
              ELSE <<consoleError("Failed to get installation token:")>>]

(* getGraphQLClient without its `if (!token) throw` *)
getGraphQLClientWithoutToken(tokenOk) ==
    LET t == getInstallationAccessToken(tokenOk)
    IN  [threw |-> FALSE, err |-> Throw(TRUE, FALSE, FALSE),
         calls |-> t.calls, logs |-> t.logs]

(* throws Error('Failed to get installation token') when there is no token *)
getGraphQLClient(tokenOk) ==
    LET t == getInstallationAccessToken(tokenOk)
    IN  [threw |-> ~t.token, err |-> Throw(TRUE, FALSE, FALSE),
         calls |-> t.calls, logs |-> t.logs]

----------------------------------------------------------------------------
(* deleteIssue *)

(* attempts[n] is what the n-th attempt meets: whether the token fetch     *)
(* succeeds and what the delete mutation answers.  An attempt past the end *)
(* of the sequence meets what the last one met.                            *)
attemptAt(attempts, n) ==
    attempts[IF n <= Len(attempts) THEN n ELSE Len(attempts)]

(* a backoff that grows linearly instead of doubling *)
waitTimeLinear(retryCount) == 1000 * retryCount

waitTime(retryCount) == 1000 * Pow2(retryCount)

(* a loop that retries any failure *)
retryableAnyFailure(err, retryCount) == retryCount < maxRetries - 1

(* a loop that retries while retryCount < maxRetries *)
retryableBelowMax(err, retryCount) == err.hasRL /\ retryCount < maxRetries

(* err.message?.includes('rate limit') && retryCount < maxRetries - 1 *)
retryable(err, retryCount) == err.hasRL /\ retryCount < maxRetries - 1

(* the while loop of deleteIssue from its n-th iteration on; exit is       *)
(* "return", or "throw" with the error that leaves the loop                *)
RECURSIVE retryLoop(_, _, _, _)
retryLoop(retryCount, n, attempts, acc) ==
    IF ~(retryCount < maxRetries)
    THEN [acc EXCEPT !.exit = "return"]
    ELSE
      LET a == attemptAt(attempts, n)
          client == getGraphQLClient(a.token)
          sent == ~client.threw
          calls == acc.calls \o client.calls
                   \o (IF sent THEN <<"graphql(deleteIssue)">> ELSE <<>>)
          logs == acc.logs \o client.logs
          err == IF client.threw THEN client.err ELSE a.res
      IN  IF sent /\ a.res.kind # "throw"
          THEN [acc EXCEPT !.calls = calls,
                           !.logs = logs \o <<info("deleted")>>,
                           !.exit = "return"]
          ELSE IF err.hasNA
          THEN [acc EXCEPT !.calls = calls,
                           !.logs = logs \o <<error(
    "GitHub App is not authorized to delete issues. Please check permissions.")>>,
                           !.exit = "return"]
          ELSE IF retryable(err, retryCount)
          THEN retryLoop(retryCount + 1, n + 1, attempts,
                   [acc EXCEPT !.calls = calls,
                               !.waits = Append(@, waitTime(retryCount + 1)),
                               !.logs = logs \o <<consoleLog(
                                   "Rate limit hit, waiting before retry")>>])
          ELSE [acc EXCEPT !.calls = calls, !.logs = logs,
                           !.exit = "throw", !.err = err]

(* a deleteIssue that forgets the issue once the loop has returned *)
deleteIssueForgetting(thread, p, attempts) ==
    IF thread.node_id = None
    THEN Done(thread, <<>>, <<>>, <<error("Thread does not have a node ID")>>)
    ELSE
      LET perm == checkAppPermissions(p)
      IN  IF ~perm.hasRequiredPermissions
          THEN Done(thread, perm.calls, <<>>, perm.logs \o <<error(
                   "GitHub App lacks required permissions to delete issues")>>)
          ELSE
            LET r == retryLoop(0, 1, attempts,
                         [calls |-> perm.calls, waits |-> <<>>,
                          logs |-> perm.logs, exit |-> "",
                          err |-> Ok(0)])
            IN  IF r.exit = "return"
                THEN Done([thread EXCEPT !.number = None, !.node_id = None],
                          r.calls, r.waits, r.logs)
                ELSE Done(thread, r.calls, r.waits,
                          r.logs \o <<error("Error deleting issue: <message>")>>)

deleteIssue(thread, p, attempts) ==
    IF thread.node_id = None
    THEN Done(thread, <<>>, <<>>, <<error("Thread does not have a node ID")>>)
    ELSE
      LET perm == checkAppPermissions(p)
      IN  IF ~perm.hasRequiredPermissions
          THEN Done(thread, perm.calls, <<>>, perm.logs \o <<error(
                   "GitHub App lacks required permissions to delete issues")>>)
          ELSE
            LET r == retryLoop(0, 1, attempts,
                         [calls |-> perm.calls, waits |-> <<>>,
                          logs |-> perm.logs, exit |-> "",
                          err |-> Ok(0)])
            IN  IF r.exit = "return"
                THEN Done(thread, r.calls, r.waits, r.logs)
                ELSE IF r.err.isError
                THEN Done(thread, r.calls, r.waits,
                          r.logs \o <<error("Error deleting issue: <message>")>>)
                ELSE Done(thread, r.calls, r.waits, r.logs \o <<error(
                         "Error deleting issue due to an unknown error")>>)

----------------------------------------------------------------------------
(* deleteComment *)

deleteComment(thread, comment_id, o) ==
    IF o.kind # "throw"
    THEN Done(thread, <<"issues.deleteComment">>, <<>>,
              <<info("deleted comment")>>)
    ELSE Done(thread, <<"issues.deleteComment">>, <<>>,
              <<catchLog(o, "delete comment")>>)

----------------------------------------------------------------------------
(* formatIssuesToThreads, fillCommentsData, getIssues *)

RECURSIVE formatIssuesToThreads(_)
formatIssuesToThreads(issues) ==
    IF issues = <<>> THEN <<>>
    ELSE LET issue == Head(issues)
             id == getDiscordInfoFromGithubBody(issue.body).id
             rest == formatIssuesToThreads(Tail(issues))
         IN  IF id = None THEN rest
             ELSE <<[id |-> id, number |-> issue.number, body |-> issue.body,
                     node_id |-> issue.node_id, comments |-> <<>>,
                     archived |-> (issue.state = "closed")]>> \o rest

(* one iteration of response.data.forEach in fillCommentsData *)
attachComment(threads, comment) ==
    LET d == getDiscordInfoFromGithubBody(comment.body)
        hits == {i \in DOMAIN threads : threads[i].id = d.channelId}
    IN  IF d.channelId = None \/ d.id = None \/ hits = {}
        THEN threads
        ELSE [threads EXCEPT ![Min(hits)].comments =
                 Append(@, [id |-> d.id, git_id |-> comment.id])]

RECURSIVE attachComments(_, _)
attachComments(threads, comments) ==
    IF comments = <<>> THEN threads
    ELSE attachComments(attachComment(threads, Head(comments)),
                        Tail(comments))

(* oc: the answer of issues.listCommentsForRepo, comments: its data *)
fillCommentsData(threads, oc, comments) ==
    IF oc.kind = "ok"
    THEN [threads |-> attachComments(threads, comments),
          calls |-> <<"issues.listCommentsForRepo">>, logs |-> <<>>]
    ELSE IF oc.kind = "nodata"
    THEN [threads |-> threads, calls |-> <<"issues.listCommentsForRepo">>,
          logs |-> <<error("Failed to load comments - No response data")>>]
    ELSE [threads |-> threads, calls |-> <<"issues.listCommentsForRepo">>,
          logs |-> <<catchLog(oc, "load comments")>>]

(* oi: the answer of issues.listForRepo, issues: its data.  threads is     *)
(* store.threads; the result carries the store the call leaves and the     *)
(* list it returns.                                                        *)
getIssues(threads, oi, issues, oc, comments) ==
    IF oi.kind = "throw"
    THEN [threads |-> threads, returned |-> <<>>,
          calls |-> <<"issues.listForRepo">>, waits |-> <<>>,
          logs |-> <<catchLog(oi, "get issues")>>, raised |-> FALSE]
    ELSE IF oi.kind = "nodata"
    THEN [threads |-> threads, returned |-> <<>>,
          calls |-> <<"issues.listForRepo">>, waits |-> <<>>,
          logs |-> <<error("Failed to get issues - No response data")>>,
          raised |-> FALSE]
    ELSE LET f == fillCommentsData(threads, oc, comments)
         IN  [threads |-> f.threads,
              returned |-> formatIssuesToThreads(issues),
              calls |-> <<"issues.listForRepo">> \o f.calls, waits |-> <<>>,
              logs |-> f.logs, raised |-> FALSE]

----------------------------------------------------------------------------
(* The environment: what the chat side and the tracker can present         *)

GitIdOf(msgId) == 100 + msgId   \* the tracker's comment id for a message

MsgIds == 1..MaxMsg
Numbers == 1..MaxNumber
ChannelIds == 1..MaxChannel

ForeignBody == <<Text>>
UnclosedLinkBody == <<Text>> \o DiscordUrl(Guild, 1, 1) \o <<Text>>

IssueBodies ==
    {getIssueBody(FirstMessage(c)) : c \in ChannelIds}
    \cup {ForeignBody, UnclosedLinkBody}

Issues ==
    {[number |-> n, node_id |-> NodeIdOf(n), body |-> b, state |-> st] :
        n \in Numbers, b \in IssueBodies, st \in {"open", "closed"}}

TrackerComments ==
    {[id |-> GitIdOf(m), body |-> getIssueBody(FollowUp(c, m))] :
        c \in ChannelIds, m \in MsgIds}
    \cup {[id |-> GitIdOf(m), body |-> ForeignBody] : m \in MsgIds}

(* listings: no issue number and no comment id occurs twice in one listing *)
IssueLists(n) ==
    {l \in SeqsUpTo(Issues, n) :
        \A i, j \in DOMAIN l : i # j => l[i].number # l[j].number}

CommentLists(n) ==
    {l \in SeqsUpTo(TrackerComments, n) :
        \A i, j \in DOMAIN l : i # j => l[i].id # l[j].id}

RestAnswers == {Ok(0)} \cup Failures
PermissionAnswers == {"write", "read", "none", "throw"}

AttemptOutcomes ==
    {[token |-> FALSE, res |-> Ok(0)]}
    \cup {[token |-> TRUE, res |-> r] :
            r \in {Ok(0), Throw(FALSE, FALSE, FALSE)}
                  \cup {Throw(TRUE, a, l) : a \in BOOLEAN, l \in BOOLEAN}}

RateLimited(a) ==
    a.token /\ a.res.kind = "throw" /\ a.res.hasRL /\ ~a.res.hasNA

(* the sequences of attempt outcomes one deleteIssue can meet: every       *)
(* attempt but the last is rate limited                                    *)
AttemptTraces ==
    {s \in SeqsUpTo(AttemptOutcomes, maxRetries) :
        /\ Len(s) >= 1
        /\ \A i \in 1..(Len(s) - 1) : RateLimited(s[i])
        /\ Len(s) < maxRetries => ~RateLimited(s[Len(s)])}

UsedMsgIds ==
    UNION {{c.id : c \in Range(store[t].comments)} : t \in DOMAIN store}

----------------------------------------------------------------------------
(* The record of the most recent operation *)

NoEnv ==
    [o |-> Ok(0), p |-> "", attempts |-> <<>>, msg |-> 0, comment_id |-> 0,
     issues |-> <<>>, oc |-> Ok(0), comments |-> <<>>]

Obs(op, t, env, r, returned) ==
    [op |-> op, t |-> t, env |-> env, calls |-> r.calls, waits |-> r.waits,
     logs |-> r.logs, raised |-> r.raised, returned |-> returned,
     pre |-> store]

(* a write that lands in the first record of the store *)
PutFirst(t, thread) == [store EXCEPT ![1] = thread]

Put(t, thread) == [store EXCEPT ![t] = thread]

RECURSIVE TotalComments(_)
TotalComments(threads) ==
    IF threads = <<>> THEN 0
    ELSE Len(Head(threads).comments) + TotalComments(Tail(threads))

----------------------------------------------------------------------------
(* Actions *)

Init ==
    /\ store = <<>>
    /\ last = [op |-> "init", t |-> 0, env |-> NoEnv, calls |-> <<>>,
               waits |-> <<>>, logs |-> <<>>, raised |-> FALSE,
               returned |-> <<>>, pre |-> <<>>]

(* the chat side registers a newly opened thread in the store *)
AddThread ==
    /\ Len(store) < MaxThreads
    /\ store' = Append(store, NewThread(Len(store) + 1))
    /\ last' = Obs("addThread", Len(store) + 1, NoEnv,
                   Done(<<>>, <<>>, <<>>, <<>>), <<>>)

CloseIssue ==
    \E t \in DOMAIN store, o \in RestAnswers :
        \E r \in {closeIssue(store[t], o)} :
            /\ store' = Put(t, r.thread)
            /\ last' = Obs("closeIssue", t, [NoEnv EXCEPT !.o = o], r, <<>>)

OpenIssue ==
    \E t \in DOMAIN store, o \in RestAnswers :
        \E r \in {openIssue(store[t], o)} :
            /\ store' = Put(t, r.thread)
            /\ last' = Obs("openIssue", t, [NoEnv EXCEPT !.o = o], r, <<>>)

LockIssue ==
    \E t \in DOMAIN store, o \in RestAnswers :
        \E r \in {lockIssue(store[t], o)} :
            /\ store' = Put(t, r.thread)
            /\ last' = Obs("lockIssue", t, [NoEnv EXCEPT !.o = o], r, <<>>)

UnlockIssue ==
    \E t \in DOMAIN store, o \in RestAnswers :
        \E r \in {unlockIssue(store[t], o)} :
            /\ store' = Put(t, r.thread)
            /\ last' = Obs("unlockIssue", t, [NoEnv EXCEPT !.o = o], r, <<>>)

CreateIssue ==
    \E t \in DOMAIN store,
       o \in {Ok(n) : n \in Numbers} \cup {NoData} \cup Failures :
        \E r \in {createIssue(store[t], FirstMessage(store[t].id), o)} :
            /\ store' = Put(t, r.thread)
            /\ last' = Obs("createIssue", t, [NoEnv EXCEPT !.o = o], r, <<>>)

(* a follow-up message: its id is new, and so is the tracker's comment id *)
CreateIssueComment ==
    \E t \in DOMAIN store, m \in MsgIds \ UsedMsgIds :
      \E o \in {Ok(GitIdOf(m)), NoData} \cup Failures :
        \E r \in {createIssueComment(store[t], FollowUp(store[t].id, m), o)} :
            /\ TotalComments(Put(t, r.thread)) <= MaxComments
            /\ store' = Put(t, r.thread)
            /\ last' = Obs("createIssueComment", t,
                           [NoEnv EXCEPT !.o = o, !.msg = m], r, <<>>)

DeleteIssue ==
    \E t \in DOMAIN store, p \in PermissionAnswers, attempts \in AttemptTraces :
        /\ p # "write" => attempts = <<[token |-> TRUE, res |-> Ok(0)]>>
        /\ \E r \in {deleteIssue(store[t], p, attempts)} :
               /\ store' = Put(t, r.thread)
               /\ last' = Obs("deleteIssue", t,
                              [NoEnv EXCEPT !.p = p, !.attempts = attempts],
                              r, <<>>)

DeleteComment ==
    \E t \in DOMAIN store, m \in MsgIds, o \in RestAnswers :
        \E r \in {deleteComment(store[t], GitIdOf(m), o)} :
            /\ store' = Put(t, r.thread)
            /\ last' = Obs("deleteComment", t,
                           [NoEnv EXCEPT !.o = o, !.comment_id = GitIdOf(m)],
                           r, <<>>)

ListingFailures == {NoData} \cup Failures

(* one run of getIssues; the data of a listing that fails is not looked at *)
GetIssuesWith(oi, issues, oc, comments) ==
    \E r \in {getIssues(store, oi, issues, oc, comments)} :
        /\ TotalComments(r.threads) <= MaxComments
        /\ store' = r.threads
        /\ last' = Obs("getIssues", 0,
                       [NoEnv EXCEPT !.o = oi, !.issues = issues,
                                     !.oc = oc, !.comments = comments],
                       r, r.returned)

GetIssues(issueLists, commentLists) ==
    \/ \E oi \in ListingFailures : GetIssuesWith(oi, <<>>, Ok(0), <<>>)
    \/ \E issues \in issueLists, oc \in ListingFailures :
           GetIssuesWith(Ok(0), issues, oc, <<>>)
    \/ \E issues \in issueLists, comments \in commentLists :
           GetIssuesWith(Ok(0), issues, Ok(0), comments)

EngineIssueLists == IssueLists(MaxIssues)
EngineCommentLists == CommentLists(MaxListed)

GetIssuesNext == GetIssues(EngineIssueLists, EngineCommentLists)

Next ==
    \/ AddThread
    \/ CloseIssue
    \/ OpenIssue
    \/ LockIssue
    \/ UnlockIssue
    \/ CreateIssue
    \/ CreateIssueComment
    \/ DeleteIssue
    \/ DeleteComment
    \/ GetIssuesNext

Spec == Init /\ [][Next]_vars

----------------------------------------------------------------------------
(* The reconciliation scan on its own: getIssues applied once to a store   *)
(* the engine can have built, with listings of several issues and comments *)

(* a thread after createIssue, and after one createIssueComment *)
Synced(id) ==
    [NewThread(id) EXCEPT !.number = id, !.node_id = NodeIdOf(id),
                          !.body = getIssueBody(FirstMessage(id))]
Commented(id) ==
    [Synced(id) EXCEPT !.comments = <<[id |-> id, git_id |-> GitIdOf(id)]>>]

ScanStores ==
    {st \in SeqsUpTo(
               {NewThread(c) : c \in ChannelIds}
               \cup {Synced(c) : c \in ChannelIds}
               \cup {Commented(c) : c \in ChannelIds \cap MsgIds},
               ScanThreads) :
        \A i, j \in DOMAIN st : i # j => st[i].id # st[j].id}

ScanIssueLists == IssueLists(ScanIssues)
ScanCommentLists == CommentLists(ScanListed)

InitScan ==
    /\ store \in ScanStores
    /\ last = [op |-> "init", t |-> 0, env |-> NoEnv, calls |-> <<>>,
               waits |-> <<>>, logs |-> <<>>, raised |-> FALSE,
               returned |-> <<>>, pre |-> <<>>]

GetIssuesScan ==
    /\ last.op = "init"
    /\ GetIssues(ScanIssueLists, ScanCommentLists)

NextScan == GetIssuesScan

SpecScan == InitScan /\ [][NextScan]_vars

----------------------------------------------------------------------------
(* Properties.  `last` describes the operation that led to the current     *)
(* state: last.pre is the store it started from, store the one it left.    *)

Before == last.pre[last.t]     \* the Thread the operation was given
After == store[last.t]         \* the same Thread when it returned

HasErrorLog == \E i \in DOMAIN last.logs : last.logs[i].level = "error"
Logged(line) == line \in Range(last.logs)
Called(call) == call \in Range(last.calls)

NumberGuarded ==
    {"closeIssue", "openIssue", "lockIssue", "unlockIssue",
     "createIssueComment"}
ThreadOps ==
    NumberGuarded \cup {"createIssue", "deleteIssue", "deleteComment"}

C2_PermissionDenied ==
    (/\ last.op = "deleteIssue"
     /\ Before.node_id # None
     /\ last.env.p # "write")
    => /\ Logged(error(
              "GitHub App lacks required permissions to delete issues"))
       /\ ~Called("graphql(deleteIssue)")
       /\ ~Called("auth(installation)")
       /\ ~last.raised
       /\ store = last.pre

C2_Witness ==
    /\ last.op = "deleteIssue"
    /\ Before.node_id # None
    /\ last.env.p = "throw"
    /\ last.calls = <<"apps.getInstallation">>
    /\ Logged(error("GitHub App lacks required permissions to delete issues"))

AlwaysRateLimited ==
    /\ Len(last.env.attempts) = maxRetries
    /\ \A i \in DOMAIN last.env.attempts : RateLimited(last.env.attempts[i])

FirstNotAuthorized ==
    /\ last.env.attempts[1].token
    /\ last.env.attempts[1].res.kind = "throw"
    /\ last.env.attempts[1].res.hasNA

DeleteRan ==
    last.op = "deleteIssue" /\ Before.node_id # None /\ last.env.p = "write"

(* C3: in deleteIssue's retry loop, a mutation that always fails with a    *)
(* 'rate limit' message is attempted exactly 3 times, with waits of 2000   *)
(* ms then 4000 ms, and the operation then fails; a first attempt failing  *)
(* with 'not authorized' makes exactly 1 attempt and no wait.              *)
C3_Backoff ==
    DeleteRan =>
       /\ AlwaysRateLimited
          => /\ Count(last.calls, "graphql(deleteIssue)") = 3
             /\ last.waits = <<2000, 4000>>
             /\ ~Logged(info("deleted"))
             /\ last.logs[Len(last.logs)].via = "logger"
             /\ last.logs[Len(last.logs)].level = "error"
       /\ FirstNotAuthorized
          => /\ Count(last.calls, "graphql(deleteIssue)") = 1
             /\ last.waits = <<>>
             /\ ~Logged(info("deleted"))

C3_Witness ==
    /\ DeleteRan
    /\ AlwaysRateLimited
    /\ last.waits = <<2000, 4000>>
    /\ Count(last.calls, "graphql(deleteIssue)") = 3

(* what the environment made fail in the most recent operation *)
FinalAttempt == last.env.attempts[Len(last.env.attempts)]

EnvFailed ==
    \/ /\ last.op \in {"closeIssue", "openIssue", "lockIssue", "unlockIssue",
                       "deleteComment"}
       /\ last.env.o.kind = "throw"
    \/ /\ last.op \in {"createIssue", "createIssueComment"}
       /\ last.env.o.kind # "ok"
    \/ /\ last.op = "deleteIssue"
       /\ \/ last.env.p # "write"
          \/ ~FinalAttempt.token
          \/ FinalAttempt.res.kind = "throw"
    \/ /\ last.op = "getIssues"
       /\ (last.env.o.kind # "ok" \/ last.env.oc.kind # "ok")

(* C4: every sync operation returns normally, whatever its tracker calls   *)
(* answer (success, a failure with a message, a failure of unrecognized    *)
(* shape, a token-fetch failure, retry exhaustion), and whenever a call    *)
(* failed at least one error line has been logged before it returns.       *)
C4_NoRaise ==
    last.op \in ThreadOps \cup {"getIssues"}
    => /\ ~last.raised
       /\ EnvFailed => HasErrorLog

C4_Witness ==
    /\ DeleteRan
    /\ AlwaysRateLimited
    /\ EnvFailed
    /\ ~last.raised
    /\ Logged(error("Error deleting issue: <message>"))

----------------------------------------------------------------------------
(* The reconciliation scan *)

ListingsOk ==
    last.op = "getIssues" /\ last.env.o.kind = "ok" /\ last.env.oc.kind = "ok"

(* the entry a tracker comment stands for *)
EntryOf(comment) ==
    [id |-> getDiscordInfoFromGithubBody(comment.body).id,
     git_id |-> comment.id]

(* C5, as stated: when getIssues returns, every tracker comment whose      *)
(* decoded channel id is the id of a returned Thread has its entry         *)
(* {chat message id, tracker comment id} in that Thread's comment list.    *)
C5_AsStated ==
    ListingsOk =>
        \A i \in DOMAIN last.env.comments, k \in DOMAIN last.returned :
            LET d == getDiscordInfoFromGithubBody(last.env.comments[i].body)
            IN  (d.channelId # None /\ d.channelId = last.returned[k].id)
                => EntryOf(last.env.comments[i])
                       \in Range(last.returned[k].comments)

(* an issue body written by createIssue for chat channel c *)
WrittenFor(issue, c) == issue.body = getIssueBody(FirstMessage(c))
IsMirrored(issue) == \E c \in ChannelIds : WrittenFor(issue, c)

RECURSIVE Mirrored(_)
Mirrored(issues) ==
    IF issues = <<>> THEN <<>>
    ELSE (IF IsMirrored(Head(issues)) THEN <<Head(issues)>> ELSE <<>>)
         \o Mirrored(Tail(issues))

(* C6: getIssues returns one Thread per tracker issue whose body carries a *)
(* decodable identity link, in tracker order, and none for any other       *)
(* issue; foreign issues cost no tracker mutation and no error; a returned *)
(* Thread is archived exactly when its issue is closed and carries the     *)
(* issue's number and node id.                                             *)
C6_OnePerMirroredIssue ==
    (last.op = "getIssues" /\ last.env.o.kind = "ok") =>
        LET m == Mirrored(last.env.issues)
        IN  /\ Len(last.returned) = Len(m)
            /\ \A k \in DOMAIN m :
                   /\ WrittenFor(m[k], last.returned[k].id)
                   /\ last.returned[k].number = m[k].number
                   /\ last.returned[k].node_id = m[k].node_id
                   /\ last.returned[k].archived = (m[k].state = "closed")
            /\ last.calls =
                   <<"issues.listForRepo", "issues.listCommentsForRepo">>
            /\ last.env.oc.kind = "ok" => last.logs = <<>>
            /\ ~last.raised

C6_Witness ==
    /\ last.op = "getIssues"
    /\ last.env.o.kind = "ok"
    /\ Len(last.env.issues) = 2
    /\ ~IsMirrored(last.env.issues[1])
    /\ IsMirrored(last.env.issues[2])
    /\ last.env.issues[2].state = "closed"
    /\ Len(last.returned) = 1
    /\ last.returned[1].archived

----------------------------------------------------------------------------
(* The Thread record *)

(* C7: once a Thread has an issue number, no operation changes its number  *)
(* or node id, and createIssue on it makes no issues.create call.          *)
C7_NumberImmutable ==
    [][\A t \in DOMAIN store :
          store[t].number # None
          => /\ store'[t].number = store[t].number
             /\ store'[t].node_id = store[t].node_id
             /\ (last'.op = "createIssue" /\ last'.t = t)
                => ~("issues.create" \in Range(last'.calls))]_vars

C7_Witness ==
    /\ last.op = "createIssue"
    /\ Before.number # None
    /\ last.calls = <<>>
    /\ After.number = Before.number
    /\ After.node_id = Before.node_id

(* C8, as stated: after closeIssue on a Thread with an issue number whose  *)
(* update succeeds the record has archived = TRUE; after openIssue whose   *)
(* update succeeds it has archived = FALSE.                                *)
C8_AsStated ==
    /\ (last.op = "closeIssue" /\ Before.number # None
        /\ last.env.o.kind = "ok")
       => After.archived = TRUE
    /\ (last.op = "openIssue" /\ Before.number # None
        /\ last.env.o.kind = "ok")
       => After.archived = FALSE

Remove(comments, git_id) ==
    SelectSeq(comments, LAMBDA c : c.git_id # git_id)

(* C9, as stated: after deleteComment with the tracker id of one of the    *)
(* Thread's comments and a successful tracker delete, that comment's entry *)
(* is gone from the Thread's comment list and the rest is unchanged.       *)
C9_AsStated ==
    (/\ last.op = "deleteComment"
     /\ last.env.o.kind = "ok"
     /\ \E c \in Range(Before.comments) : c.git_id = last.env.comment_id)
    => After.comments = Remove(Before.comments, last.env.comment_id)

(* C10, as stated: no Thread's comment list holds two entries with the     *)
(* same chat message id or two entries with the same tracker comment id.   *)
C10_AsStated ==
    \A t \in DOMAIN store :
        \A i, j \in DOMAIN store[t].comments :
            i # j => /\ store[t].comments[i].id # store[t].comments[j].id
                     /\ store[t].comments[i].git_id
                            # store[t].comments[j].git_id

----------------------------------------------------------------------------
(* The labels of createIssue.  A label, a tag name and the value of        *)
(* ADDITIONAL_LABELS are sequences of characters: Comma, Space or a letter *)
(* (a number >= 1).                                                        *)

Comma == -5          \* ","
Space == -6          \* " ", the character trim() removes

MaxTags == 2         \* applied tags of one thread
MaxEnvLen == 4       \* characters of the ADDITIONAL_LABELS value

(* store.availableTags: the forum's tags "bug" and "ui"; no tag has id 3 *)
availableTags == <<[id |-> 1, name |-> <<1>>], [id |-> 2, name |-> <<2>>]>>
TagIds == {1, 2, 3}

(* s.split(sep) *)
RECURSIVE split(_, _)
split(s, sep) ==
    LET cut == {i \in DOMAIN s : s[i] = sep}
    IN  IF cut = {} THEN <<s>>
        ELSE <<SubSeq(s, 1, Min(cut) - 1)>>
             \o split(SubSeq(s, Min(cut) + 1, Len(s)), sep)

(* s.trim() *)
RECURSIVE trim(_)
trim(s) ==
    IF s = <<>> THEN s
    ELSE IF Head(s) = Space THEN trim(Tail(s))
    ELSE IF s[Len(s)] = Space THEN trim(SubSeq(s, 1, Len(s) - 1))
    ELSE s

(* store.availableTags.find((item) => item.id === id)?.name || "" *)
tagName(id) ==
    LET hits == {i \in DOMAIN availableTags : availableTags[i].id = id}
    IN  IF hits = {} THEN <<>> ELSE availableTags[Min(hits)].name

RECURSIVE tagNames(_)
tagNames(appliedTags) ==
    IF appliedTags = <<>> THEN <<>>
    ELSE <<tagName(Head(appliedTags))>> \o tagNames(Tail(appliedTags))

(* the labels argument of issues.create; env is the value of               *)
(* process.env.ADDITIONAL_LABELS, "" when it is not set                    *)
createIssueLabels(appliedTags, env) ==
    tagNames(appliedTags)
    \o SelectSeq(split(env, Comma), LAMBDA label : trim(label) # <<>>)

(* a new thread of the forum with its applied tags *)
TaggedThread(id, appliedTags) ==
    [id |-> id, number |-> None, node_id |-> None, body |-> <<>>,
     archived |-> FALSE, comments |-> <<>>, appliedTags |-> appliedTags]

TagLists == SeqsUpTo(TagIds, MaxTags)
EnvValues == SeqsUpTo({Comma, Space, 3, 4}, MaxEnvLen)

(* last, with the configuration value and the labels the call carried *)
ObsLabels(o, r, env, labels) ==
    [op |-> "createIssue", t |-> 1, env |-> [NoEnv EXCEPT !.o = o],
     calls |-> r.calls, waits |-> r.waits, logs |-> r.logs,
     raised |-> r.raised, returned |-> <<>>, pre |-> store,
     ADDITIONAL_LABELS |-> env, labels |-> labels]

InitLabels ==
    /\ \E appliedTags \in TagLists : store = <<TaggedThread(1, appliedTags)>>
    /\ \E env \in EnvValues :
           last = [op |-> "init", t |-> 0, env |-> NoEnv, calls |-> <<>>,
                   waits |-> <<>>, logs |-> <<>>, raised |-> FALSE,
                   returned |-> <<>>, pre |-> <<>>,
                   ADDITIONAL_LABELS |-> env, labels |-> <<>>]

CreateIssueLabels ==
    \E o \in {Ok(n) : n \in Numbers} \cup {NoData} \cup Failures :
        \E r \in {createIssue(store[1], FirstMessage(store[1].id), o)} :
            /\ store' = Put(1, r.thread)
            /\ last' = ObsLabels(o, r, last.ADDITIONAL_LABELS,
                           IF r.calls = <<>> THEN <<>>
                           ELSE createIssueLabels(store[1].appliedTags,
                                                  last.ADDITIONAL_LABELS))

NextLabels == CreateIssueLabels

SpecLabels == InitLabels /\ [][NextLabels]_vars

RECURSIVE Trimmed(_)
Trimmed(labels) ==
    IF labels = <<>> THEN <<>>
    ELSE <<trim(Head(labels))>> \o Trimmed(Tail(labels))

NonEmpty(labels) == SelectSeq(labels, LAMBDA label : label # <<>>)

(* C11, as stated: the labels createIssue sends are the names of the       *)
(* Thread's applied tags in order, then the entries of the comma-separated *)
(* ADDITIONAL_LABELS value in order, without surrounding whitespace and    *)
(* without any empty label (also when a tag id has no name).               *)
C11_AsStated ==
    (last.op = "createIssue" /\ Called("issues.create"))
    => last.labels =
           NonEmpty(tagNames(Before.appliedTags))
           \o NonEmpty(Trimmed(split(last.ADDITIONAL_LABELS, Comma)))

----------------------------------------------------------------------------
(* The identity codec on its own: a chat message is rendered by            *)
(* getIssueBody and the body decoded by getDiscordInfoFromGithubBody.      *)

MaxAttachments == 1  \* attachments of one message

(* text a user can type that holds a message link, bare or followed by ")" *)
LinkTexts ==
    {DiscordUrl(Guild, c, m) \o t :
        c \in ChannelIds, m \in MsgIds, t \in {<<>>, <<RParen>>}}

UserTexts == {<<Text>>} \cup LinkTexts \cup {<<Text>> \o l : l \in LinkTexts}

Attachments ==
    {[url |-> <<Text>>, name |-> n, contentType |-> ct] :
        n \in {<<Text>>, DiscordUrl(Guild, 2, 2) \o <<RParen>>},
        ct \in {"image/png", "application/pdf"}}

Messages ==
    {[guildId |-> Guild, channelId |-> c, id |-> m, content |-> content,
      author |-> [Author EXCEPT !.globalName = name],
      attachments |-> attachments] :
        c \in ChannelIds, m \in MsgIds, content \in UserTexts,
        name \in UserTexts, attachments \in SeqsUpTo(Attachments, MaxAttachments)}

InitCodec ==
    /\ store = <<>>
    /\ \E msg \in Messages :
           last = [op |-> "message", msg |-> msg, body |-> <<>>,
                   decoded |-> [channelId |-> None, id |-> None]]

(* createIssue / createIssueComment render the message into the body *)
RenderBody ==
    /\ last.op = "message"
    /\ last' = [last EXCEPT !.op = "getIssueBody",
                            !.body = getIssueBody(last.msg)]
    /\ UNCHANGED store

(* the reconciliation scan decodes the body it finds on the tracker *)
DecodeBody ==
    /\ last.op = "getIssueBody"
    /\ last' = [last EXCEPT !.op = "getDiscordInfoFromGithubBody",
                            !.decoded = getDiscordInfoFromGithubBody(last.body)]
    /\ UNCHANGED store

NextCodec == RenderBody \/ DecodeBody

SpecCodec == InitCodec /\ [][NextCodec]_vars

(* C12, as stated: for every message with numeric guild, channel and       *)
(* message ids, whatever its author name, content and attachments,         *)
(* decoding the body rendered by getIssueBody returns exactly that channel *)
(* id and that message id.                                                 *)
C12_AsStated ==
    last.op = "getDiscordInfoFromGithubBody"
    => last.decoded = [channelId |-> last.msg.channelId, id |-> last.msg.id]

----------------------------------------------------------------------------
(* deleteIssue on its own: the tracker answers each of the attempts of one *)
(* delete in any way, and the thread is deleted more than once.            *)

MaxDeletes == 2      \* delete mutations the tracker accepts for one thread

AllTraces == [1..maxRetries -> AttemptOutcomes]

Accepted(r) == info("deleted") \in Range(r.logs)

(* last, with the number of delete mutations the tracker has accepted *)
ObsRetry(env, r, deletes) ==
    [op |-> "deleteIssue", t |-> 1, env |-> env, calls |-> r.calls,
     waits |-> r.waits, logs |-> r.logs, raised |-> r.raised,
     returned |-> <<>>, pre |-> store, deletes |-> deletes]

InitRetry ==
    /\ store \in {<<NewThread(1)>>, <<Synced(1)>>, <<Commented(1)>>}
    /\ last = [op |-> "init", t |-> 0, env |-> NoEnv, calls |-> <<>>,
               waits |-> <<>>, logs |-> <<>>, raised |-> FALSE,
               returned |-> <<>>, pre |-> <<>>, deletes |-> 0]

DeleteIssueRetry ==
    /\ last.deletes < MaxDeletes
    /\ \E p \in PermissionAnswers, attempts \in AllTraces :
        /\ p # "write" => attempts = [i \in 1..maxRetries |->
                                         [token |-> TRUE, res |-> Ok(0)]]
        /\ \E r \in {deleteIssue(store[1], p, attempts)} :
               /\ store' = Put(1, r.thread)
               /\ last' = ObsRetry(
                              [NoEnv EXCEPT !.p = p, !.attempts = attempts], r,
                              last.deletes + (IF Accepted(r) THEN 1 ELSE 0))

NextRetry == DeleteIssueRetry

SpecRetry == InitRetry /\ [][NextRetry]_vars

(* the attempt at which the tracker's answers end the delete: the first    *)
(* that is not a plain rate-limit failure, or the last one allowed         *)
FirstStop ==
    Min({i \in 1..maxRetries : ~RateLimited(last.env.attempts[i])}
        \cup {maxRetries})
StopAttempt == last.env.attempts[FirstStop]

Mutations == Count(last.calls, "graphql(deleteIssue)")
TokenFetches == Count(last.calls, "auth(installation)")
LastLog == last.logs[Len(last.logs)]
LastCall == last.calls[Len(last.calls)]

RECURSIVE Sum(_)
Sum(s) == IF s = <<>> THEN 0 ELSE Head(s) + Sum(Tail(s))

(* C13: in deleteIssue, when the installation-token fetch of an attempt    *)
(* fails, no delete mutation is issued in that attempt, nothing is tried   *)
(* after it (no further token fetch, mutation or wait) and the operation   *)
(* ends with the error log "Error deleting issue: <message>".              *)
C13_TokenFailureAborts ==
    (DeleteRan /\ ~StopAttempt.token)
    => /\ TokenFetches = FirstStop
       /\ Mutations = FirstStop - 1
       /\ Len(last.waits) = FirstStop - 1
       /\ LastCall = "auth(installation)"
       /\ Logged(consoleError("Failed to get installation token:"))
       /\ LastLog = error("Error deleting issue: <message>")
       /\ ~Logged(info("deleted"))
       /\ ~last.raised

C13_Witness ==
    /\ DeleteRan
    /\ FirstStop = 2
    /\ ~StopAttempt.token
    /\ last.calls = <<"apps.getInstallation", "auth(installation)",
                      "graphql(deleteIssue)", "auth(installation)">>
    /\ LastLog = error("Error deleting issue: <message>")

Succeeded(a) == a.token /\ a.res.kind # "throw"
NotAuthorized(a) == a.token /\ a.res.kind = "throw" /\ a.res.hasNA

NotAuthorizedLine ==
    error(
    "GitHub App is not authorized to delete issues. Please check permissions.")

(* C17: whatever the delete mutation answers at each attempt, the retry    *)
(* loop of deleteIssue ends at the first attempt that succeeds, fails with *)
(* 'not authorized' or fails with neither 'not authorized' nor 'rate       *)
(* limit': a success logs "deleted" and nothing is called or waited for    *)
(* after it; a 'not authorized' failure and any other failure are logged   *)
(* as errors and not retried; there are never more than 3 mutations or     *)
(* more than 2 waits.                                                      *)
C17_StopsAtFirst ==
    DeleteRan =>
       /\ TokenFetches = FirstStop
       /\ Mutations = FirstStop - (IF StopAttempt.token THEN 0 ELSE 1)
       /\ Len(last.waits) = FirstStop - 1
       /\ Mutations <= maxRetries
       /\ Len(last.waits) <= maxRetries - 1
       /\ ~last.raised
       /\ Succeeded(StopAttempt)
          => /\ LastLog = info("deleted")
             /\ LastCall = "graphql(deleteIssue)"
             /\ ~HasErrorLog
       /\ NotAuthorized(StopAttempt)
          => /\ LastLog = NotAuthorizedLine
             /\ ~Logged(info("deleted"))
       /\ (~Succeeded(StopAttempt) /\ ~NotAuthorized(StopAttempt))
          => /\ LastLog = IF ~StopAttempt.token \/ StopAttempt.res.isError
                          THEN error("Error deleting issue: <message>")
                          ELSE error(
                              "Error deleting issue due to an unknown error")
             /\ ~Logged(info("deleted"))

C17_Witness ==
    /\ DeleteRan
    /\ FirstStop = 2
    /\ Succeeded(StopAttempt)
    /\ RateLimited(last.env.attempts[3])
    /\ Mutations = 2
    /\ last.waits = <<2000>>
    /\ LastLog = info("deleted")

(* the rate-limit failures the tracker answers before anything else *)
LeadingRateLimits == FirstStop - (IF RateLimited(StopAttempt) THEN 0 ELSE 1)

(* C18, as stated: on a 'rate limit' failure deleteIssue retries whenever  *)
(* the attempt count is below 3, and the wait before the retry is          *)
(* 1000 * 2^attempt ms with the attempt count taken before its increment   *)
(* (1000, 2000, 4000), at most about 7 seconds in all.                     *)
C18_AsStated ==
    DeleteRan =>
       /\ Len(last.waits) = LeadingRateLimits
       /\ \A i \in DOMAIN last.waits : last.waits[i] = 1000 * Pow2(i - 1)
       /\ Sum(last.waits) <= 7000

(* C18, amended: on a 'rate limit' failure deleteIssue retries only while  *)
(* the attempt count is below 2 (maxRetries - 1), so a third rate-limit    *)
(* failure ends the delete; the wait before the retry is 1000 * 2^attempt  *)
(* ms with the attempt count taken after its increment (2000, then 4000),  *)
(* at most 6000 ms in all.                                                 *)
C18_Backoff ==
    DeleteRan =>
       /\ Len(last.waits) = Min({LeadingRateLimits, maxRetries - 1})
       /\ \A i \in DOMAIN last.waits : last.waits[i] = 1000 * Pow2(i)
       /\ Sum(last.waits) <= 6000
       /\ Mutations <= maxRetries

C18_Witness ==
    /\ DeleteRan
    /\ LeadingRateLimits = maxRetries
    /\ Mutations = maxRetries
    /\ Sum(last.waits) = 6000
    /\ LastLog = error("Error deleting issue: <message>")

(* C19: deleteIssue leaves the Thread record and the thread store as they  *)
(* were on every path, so after a delete the tracker accepted the record   *)
(* still has its issue number and node id, and another deleteIssue on it   *)
(* issues the mutation again.                                              *)
C19_Frame ==
    last.op = "deleteIssue"
    => /\ store = last.pre
       /\ (Before.node_id # None /\ last.env.p = "write"
           /\ last.env.attempts[1].token)
          => Called("graphql(deleteIssue)")
       /\ Before.node_id = None => last.calls = <<>>

C19_Witness ==
    /\ last.op = "deleteIssue"
    /\ last.deletes = 2
    /\ Logged(info("deleted"))
    /\ After.number # None
    /\ After.node_id # None
    /\ After = Commented(1)

----------------------------------------------------------------------------
(* The permission gate and the record after a failed call, over all the    *)
(* operations (specification Spec)                                         *)

DeleteCalls == {"graphql(deleteIssue)", "issues.deleteComment"}

(* C14, as stated: every tracker delete call (the deleteIssue mutation and *)
(* issues.deleteComment) is preceded, within the same operation, by        *)
(* exactly one permission check, and that check granted.                   *)
C14_AsStated ==
    \A i \in DOMAIN last.calls :
        last.calls[i] \in DeleteCalls
        => /\ Count(SubSeq(last.calls, 1, i - 1), "apps.getInstallation") = 1
           /\ last.env.p = "write"

(* C20: a failed issues.create (an error, or a response without data)      *)
(* leaves the Thread record as it was, the number absent, and createIssue  *)
(* on a Thread without a number always attempts the create; a failed       *)
(* issues.createComment leaves the comment list as it was; number, node id *)
(* and body are set, and one comment entry appended, exactly when the call *)
(* answered with data.                                                     *)
C20_FailedCallLeavesRecord ==
    /\ (last.op = "createIssue" /\ Before.number = None)
       => /\ last.calls = <<"issues.create">>
          /\ IF last.env.o.kind = "ok"
             THEN After = [Before EXCEPT
                              !.number = last.env.o.v,
                              !.node_id = NodeIdOf(last.env.o.v),
                              !.body = getIssueBody(FirstMessage(Before.id))]
             ELSE After = Before /\ After.number = None /\ HasErrorLog
    /\ (last.op = "createIssueComment" /\ Before.number # None)
       => /\ last.calls = <<"issues.createComment">>
          /\ IF last.env.o.kind = "ok"
             THEN After = [Before EXCEPT !.comments =
                              Append(@, [id |-> last.env.msg,
                                         git_id |-> last.env.o.v])]
             ELSE After = Before /\ HasErrorLog
    /\ last.op \in {"createIssue", "createIssueComment"}
       => \A u \in DOMAIN store : u # last.t => store[u] = last.pre[u]

C20_Witness ==
    /\ last.op = "createIssueComment"
    /\ Before.number # None
    /\ Before.comments # <<>>
    /\ last.env.o.kind = "nodata"
    /\ last.calls = <<"issues.createComment">>
    /\ After.comments = Before.comments

----------------------------------------------------------------------------
(* The startup checks: the block that runs once when the module is loaded. *)
(* Each await of the block is one step.                                    *)

MaxRemaining == 8    \* requests left that rateLimit.get can report

(* an authentication self-check that reports success when the query fails *)
verifyGitHubAppAuthFailOpen(a) ==
    [result |-> TRUE, calls |-> <<"apps.getAuthenticated">>,
     logs |-> <<consoleLog("Successfully authenticated as GitHub App:")>>]

(* a: "ok", or "throw" when apps.getAuthenticated fails *)
verifyGitHubAppAuth(a) ==
    IF a = "ok"
    THEN [result |-> TRUE, calls |-> <<"apps.getAuthenticated">>,
          logs |-> <<consoleLog("Successfully authenticated as GitHub App:")>>]
    ELSE [result |-> FALSE, calls |-> <<"apps.getAuthenticated">>,
          logs |-> <<consoleError("GitHub App authentication failed:")>>]

(* rate: what rateLimit.get answers (the requests remaining), or a failure *)
checkRateLimit(rate) ==
    IF rate.kind = "ok"
    THEN [result |-> rate.remaining > 0, calls |-> <<"rateLimit.get">>,
          logs |-> <<consoleLog("Rate limit status:")>>]
    ELSE [result |-> FALSE, calls |-> <<"rateLimit.get">>,
          logs |-> <<consoleError("Failed to check rate limit:")>>]

AuthAnswers == {"ok", "throw"}
Capabilities == {"write", "read", "none"}
RateAnswers ==
    {[kind |-> "ok", remaining |-> n] : n \in 0..MaxRemaining}
    \cup {[kind |-> "throw", remaining |-> 0]}

AuthFailedLine ==
    consoleError(
    "Failed to authenticate with GitHub App. Please check your credentials.")

LacksPermissionsLines ==
    <<consoleError("GitHub App lacks required permissions!"),
      consoleError("Please update the GitHub App permissions to include:"),
      consoleError("- Issues: Read & Write"),
      consoleError("Then reinstall the app at: https://github.com/settings/installations")>>

InitStartup ==
    /\ store = <<>>
    /\ last = [op |-> "startup", pc |-> "verifyGitHubAppAuth",
               env |-> [auth |-> "", p |-> "", administration |-> "",
                        rate |-> [kind |-> "", remaining |-> 0]],
               calls |-> <<>>, logs |-> <<>>, raised |-> FALSE]

(* const isAuthenticated = await verifyGitHubAppAuth(); if (!...) return *)
StartupAuth ==
    /\ last.pc = "verifyGitHubAppAuth"
    /\ \E a \in AuthAnswers :
        \E r \in {verifyGitHubAppAuth(a)} :
            last' = [last EXCEPT
                !.env.auth = a,
                !.calls = @ \o r.calls,
                !.logs = @ \o r.logs \o
                    (IF r.result THEN <<>> ELSE <<AuthFailedLine>>),
                !.pc = IF r.result THEN "checkAppPermissions" ELSE "done"]
    /\ UNCHANGED store

(* const { hasRequiredPermissions, ... } = await checkAppPermissions() *)
StartupPermissions ==
    /\ last.pc = "checkAppPermissions"
    /\ \E p \in PermissionAnswers, administration \in Capabilities :
        /\ p = "throw" => administration = "none"
        /\ \E r \in {checkAppPermissions(p)} :
            last' = [last EXCEPT
                !.env.p = p,
                !.env.administration = administration,
                !.calls = @ \o r.calls,
                !.logs = @ \o r.logs \o
                    (IF r.hasRequiredPermissions THEN <<>>
                     ELSE LacksPermissionsLines),
                !.pc = "checkRateLimit"]
    /\ UNCHANGED store

(* await checkRateLimit() *)
StartupRateLimit ==
    /\ last.pc = "checkRateLimit"
    /\ \E rate \in RateAnswers :
        \E r \in {checkRateLimit(rate)} :
            last' = [last EXCEPT
                !.env.rate = rate,
                !.calls = @ \o r.calls,
                !.logs = @ \o r.logs,
                !.pc = "done"]
    /\ UNCHANGED store

NextStartup == StartupAuth \/ StartupPermissions \/ StartupRateLimit

SpecStartup == InitStartup /\ [][NextStartup]_vars

StartupCalls ==
    <<"apps.getAuthenticated", "apps.getInstallation", "rateLimit.get">>

(* C15: at startup the authentication self-check runs first and once; when *)
(* it fails, the permission check and the rate-limit probe are not run;    *)
(* when it succeeds, the permission check and then the rate-limit probe    *)
(* run once each; a failure of any of the three is logged on the error     *)
(* console and the block never raises.                                     *)
C15_StartupOrder ==
    /\ ~last.raised
    /\ last.calls = SubSeq(StartupCalls, 1, Len(last.calls))
    /\ last.pc # "verifyGitHubAppAuth" => Head(last.calls) = StartupCalls[1]
    /\ last.env.auth = "throw"
       => /\ last.pc = "done"
          /\ last.calls = <<"apps.getAuthenticated">>
          /\ last.logs =
                <<consoleError("GitHub App authentication failed:"),
                  AuthFailedLine>>
    /\ (last.pc = "done" /\ last.env.auth = "ok")
       => /\ last.calls = StartupCalls
          /\ last.env.p = "throw"
             => Logged(consoleError("Failed to check permissions:"))
          /\ last.env.p # "write"
             => Logged(consoleError("GitHub App lacks required permissions!"))
          /\ last.env.rate.kind = "throw"
             => Logged(consoleError("Failed to check rate limit:"))

C15_Witness ==
    /\ last.pc = "done"
    /\ last.env.auth = "ok"
    /\ last.env.p = "throw"
    /\ last.env.rate.kind = "throw"
    /\ last.calls = StartupCalls
    /\ ~last.raised

----------------------------------------------------------------------------
(* Operations on different Threads in flight at once.  An operation runs   *)
(* up to its first await, and each later step is the code between two      *)
(* awaits; steps of the operations of different Threads interleave.  One   *)
(* Thread has one operation in flight at a time.                           *)

InterleaveThreads == 2   \* threads with operations in flight

Idle == [op |-> "idle", stage |-> "", retryCount |-> 0, msg |-> 0]
Awaiting(op, stage, retryCount, msg) ==
    [op |-> op, stage |-> stage, retryCount |-> retryCount, msg |-> msg]

(* the code of an operation before its first await: "" when it returns at  *)
(* its guard, else the call it awaits                                      *)
firstAwait(op, thread) ==
    IF op \in NumberGuarded
    THEN (IF thread.number = None THEN "" ELSE "call")
    ELSE IF op = "createIssue"
    THEN (IF thread.number # None THEN "" ELSE "call")
    ELSE IF op = "deleteIssue"
    THEN (IF thread.node_id = None THEN "" ELSE "checkAppPermissions")
    ELSE "call"

(* the code after the await of the operation's REST call: the record the   *)
(* Thread it was given is left with                                        *)
afterCall(op, thread, msg, o) ==
    IF op = "createIssue" /\ o.kind = "ok"
    THEN [thread EXCEPT !.node_id = NodeIdOf(o.v),
                        !.body = getIssueBody(FirstMessage(thread.id)),
                        !.number = o.v]
    ELSE IF op = "createIssueComment" /\ o.kind = "ok"
    THEN [thread EXCEPT !.comments = Append(@, [id |-> msg, git_id |-> o.v])]
    ELSE thread

(* the same operation run from start to end on its own *)
runAlone(op, thread, msg, o) ==
    CASE op = "closeIssue" -> closeIssue(thread, o).thread
      [] op = "openIssue" -> openIssue(thread, o).thread
      [] op = "lockIssue" -> lockIssue(thread, o).thread
      [] op = "unlockIssue" -> unlockIssue(thread, o).thread
      [] op = "createIssue" ->
             createIssue(thread, FirstMessage(thread.id), o).thread
      [] op = "createIssueComment" ->
             createIssueComment(thread, FollowUp(thread.id, msg), o).thread
      [] op = "deleteComment" -> deleteComment(thread, GitIdOf(msg), o).thread

(* a delete whose loop met retryCount rate-limit failures and then final *)
deleteAlone(thread, p, retryCount, final) ==
    deleteIssue(thread, p,
        [i \in 1..retryCount |->
            [token |-> TRUE, res |-> Throw(TRUE, FALSE, TRUE)]]
        \o <<final>>).thread

CallAnswers(op, msg) ==
    IF op = "createIssue" THEN {Ok(n) : n \in Numbers} \cup {NoData} \cup Failures
    ELSE IF op = "createIssueComment"
    THEN {Ok(GitIdOf(msg)), NoData} \cup Failures
    ELSE RestAnswers

MutationAnswers ==
    {Ok(0), Throw(TRUE, FALSE, TRUE), Throw(TRUE, TRUE, FALSE),
     Throw(TRUE, FALSE, FALSE)}

PendingMsgIds == {last.pending[t].msg : t \in DOMAIN last.pending}

Step(t, alone, pending) ==
    last' = [op |-> "interleave", t |-> t,
             pending |-> [last.pending EXCEPT ![t] = pending],
             alone |-> [last.alone EXCEPT ![t] = alone]]

InitInterleave ==
    /\ store = [t \in 1..InterleaveThreads |-> NewThread(t)]
    /\ last = [op |-> "interleave", t |-> 0,
               pending |-> [t \in 1..InterleaveThreads |-> Idle],
               alone |-> [t \in 1..InterleaveThreads |-> NewThread(t)]]

(* an operation is called with a Thread and runs to its first await *)
Begin ==
    \E t \in DOMAIN store, op \in ThreadOps, m \in MsgIds :
        /\ last.pending[t] = Idle
        /\ op = "createIssueComment" => m \notin UsedMsgIds \cup PendingMsgIds
        /\ op \notin {"createIssueComment", "deleteComment"} => m = 1
        /\ \E stage \in {firstAwait(op, store[t])} :
            IF stage = ""
            THEN /\ Step(t, IF op = "deleteIssue"
                            THEN deleteAlone(last.alone[t], "write", 0,
                                     [token |-> TRUE, res |-> Ok(0)])
                            ELSE runAlone(op, last.alone[t], m, Ok(0)),
                         Idle)
                 /\ UNCHANGED store
            ELSE /\ Step(t, last.alone[t],
                         Awaiting(op, stage, 0,
                             IF op = "createIssueComment" THEN m ELSE 0))
                 /\ UNCHANGED store

(* the REST call of an operation answers and the operation runs to its end *)
ResumeCall ==
    \E t \in DOMAIN store :
        /\ last.pending[t].stage = "call"
        /\ \E o \in CallAnswers(last.pending[t].op, last.pending[t].msg) :
            \E thread \in {afterCall(last.pending[t].op, store[t],
                                     last.pending[t].msg, o)} :
                /\ TotalComments(Put(t, thread)) <= MaxComments
                /\ store' = Put(t, thread)
                /\ Step(t, runAlone(last.pending[t].op, last.alone[t],
                                    last.pending[t].msg, o),
                        Idle)

(* deleteIssue: checkAppPermissions answers *)
ResumePermissions ==
    \E t \in DOMAIN store, p \in PermissionAnswers :
        /\ last.pending[t].stage = "checkAppPermissions"
        /\ UNCHANGED store
        /\ IF checkAppPermissions(p).hasRequiredPermissions
           THEN Step(t, last.alone[t],
                     [last.pending[t] EXCEPT !.stage = "getGraphQLClient"])
           ELSE Step(t, deleteAlone(last.alone[t], p, 0,
                            [token |-> TRUE, res |-> Ok(0)]),
                     Idle)

(* deleteIssue: the installation-token fetch answers *)
ResumeToken ==
    \E t \in DOMAIN store, tokenOk \in BOOLEAN :
        /\ last.pending[t].stage = "getGraphQLClient"
        /\ UNCHANGED store
        /\ IF getGraphQLClient(tokenOk).threw
           THEN Step(t, deleteAlone(last.alone[t], "write",
                            last.pending[t].retryCount,
                            [token |-> FALSE, res |-> Ok(0)]),
                     Idle)
           ELSE Step(t, last.alone[t],
                     [last.pending[t] EXCEPT !.stage = "graphql"])

(* deleteIssue: the delete mutation answers *)
ResumeMutation ==
    \E t \in DOMAIN store, res \in MutationAnswers :
        /\ last.pending[t].stage = "graphql"
        /\ UNCHANGED store
        /\ IF res.kind = "throw" /\ ~res.hasNA
              /\ retryable(res, last.pending[t].retryCount)
           THEN Step(t, last.alone[t],
                     [last.pending[t] EXCEPT !.stage = "setTimeout",
                                             !.retryCount = @ + 1])
           ELSE Step(t, deleteAlone(last.alone[t], "write",
                            last.pending[t].retryCount,
                            [token |-> TRUE, res |-> res]),
                     Idle)

(* deleteIssue: the backoff timer fires and the loop continues *)
ResumeWait ==
    \E t \in DOMAIN store :
        /\ last.pending[t].stage = "setTimeout"
        /\ UNCHANGED store
        /\ Step(t, last.alone[t],
                [last.pending[t] EXCEPT !.stage = "getGraphQLClient"])

NextInterleave ==
    \/ Begin
    \/ ResumeCall
    \/ ResumePermissions
    \/ ResumeToken
    \/ ResumeMutation
    \/ ResumeWait

SpecInterleave == InitInterleave /\ [][NextInterleave]_vars

(* C16: when operations on different Threads interleave at their awaits,   *)
(* every step changes at most the record of the Thread its operation was   *)
(* given, and every Thread's record equals the record that running its own *)
(* operations alone, with the same answers, gives.                         *)
C16_NoCrossThreadWrites ==
    [][/\ \A u \in DOMAIN store : u # last'.t => store'[u] = store[u]
       /\ DOMAIN store' = DOMAIN store
       /\ \A u \in DOMAIN store : store'[u] = last'.alone[u]]_vars

C16_Witness ==
    /\ last.t = 2
    /\ last.pending[2] = Idle
    /\ last.pending[1].op = "createIssueComment"
    /\ last.pending[1].stage = "call"
    /\ store[2].comments # <<>>
    /\ store[1].number # None
    /\ store[1].number # store[2].number
    /\ store[2] = last.alone[2]

====
